---- MODULE Spec2Model ----
(***************************************************************************)
(* go-apachelog: an http.Handler decorator that writes one Apache common   *)
(* log format line per request.  The model follows the newest revision of  *)
(* the package (the one with record.start/finish/Hijack).  Every request   *)
(* is served by its own goroutine; the goroutines share the clock and the  *)
(* output sink (handler.out).                                              *)
(***************************************************************************)
EXTENDS Integers, Sequences, FiniteSets, TLC

\* ---------------------------------------------------------------- bounds
MaxOps == 3          \* calls the wrapped handler makes on the proxy when one request is served
MaxLen == 1          \* longest byte slice the wrapped handler writes
MaxClock == 2        \* last instant the clock reaches (in ticks)
TicksPerSecond == 2  \* granularity of the modelled clock
MaxAddrLen == 5      \* longest peer address tried on getIP

Reqs == {1, 2}

\* The runs explored: one request whose handler makes up to MaxOps calls on the proxy, or
\* two concurrent requests whose handlers make at most one call each.  A workload maps
\* each request the server receives to the number of calls its handler may make.
Workloads == {[r \in {1} |-> MaxOps], [r \in Reqs |-> 1]}

\* ---------------------------------------------------------------- constants
StatusOK == 200
ZeroTime == 0        \* time.Time{} / time.Duration(0): the zero value of a fresh record
Nil == "nil"
ErrHijackingNotSupported == "hijacking is not supported"
ErrReal == "real channel error"      \* any error the real ResponseWriter returns
ErrSink == "sink error"              \* any error the output sink returns

StatusCodes == {200, 404, 500}
Payloads == UNION {[1..n -> {"x"}] : n \in 0..MaxLen}

\* ---------------------------------------------------------------- requests
\* Strings the code inspects byte by byte are sequences of one-character strings.
Addr1 == <<"1", ".", "2", ":", "8", "0">>
Addr2 == <<"[", ":", ":", "1", "]", ":", "9">>
Addr3 == <<"u", "n", "i", "x">>

Request(r) ==
    IF r = 1 THEN [RemoteAddr |-> Addr1, Method |-> "GET", RequestURI |-> "/hello", Proto |-> "HTTP/1.1"]
    ELSE IF r = 2 THEN [RemoteAddr |-> Addr2, Method |-> "POST", RequestURI |-> "/up", Proto |-> "HTTP/1.0"]
    ELSE [RemoteAddr |-> Addr3, Method |-> "HEAD", RequestURI |-> "/", Proto |-> "HTTP/2.0"]

\* ---------------------------------------------------------------- net.SplitHostPort
IndexByte(s, c) ==
    IF \E i \in 1..Len(s) : s[i] = c
    THEN (CHOOSE i \in 1..Len(s) : s[i] = c /\ \A j \in 1..(i - 1) : s[j] # c) - 1
    ELSE -1

LastIndexByte(s, c) ==
    IF \E i \in 1..Len(s) : s[i] = c
    THEN (CHOOSE i \in 1..Len(s) : s[i] = c /\ \A j \in (i + 1)..Len(s) : s[j] # c) - 1
    ELSE -1

\* s[lo:hi] with Go's zero-based, half-open bounds
Slice(s, lo, hi) == SubSeq(s, lo + 1, hi)

SplitHostPort(hostport) ==
    LET i == LastIndexByte(hostport, ":")
        bad == [host |-> <<>>, err |-> "AddrError"]
    IN  IF i < 0 THEN bad
        ELSE LET bracket == hostport[1] = "["
                 end == IndexByte(hostport, "]")
             IN  IF bracket /\ (end < 0 \/ end + 1 # i) THEN bad
                 ELSE LET host == IF bracket THEN Slice(hostport, 1, end) ELSE Slice(hostport, 0, i)
                          j == IF bracket THEN 1 ELSE 0
                          k == IF bracket THEN end + 1 ELSE 0
                      IN  IF ~bracket /\ IndexByte(host, ":") >= 0 THEN bad
                          ELSE IF IndexByte(Slice(hostport, j, Len(hostport)), "[") >= 0 THEN bad
                          ELSE IF IndexByte(Slice(hostport, k, Len(hostport)), "]") >= 0 THEN bad
                          ELSE [host |-> host, err |-> Nil]

\* the client address as an older revision computed it: everything before the last colon
getIP_LastColon(remoteAddr) ==
    LET colon == LastIndexByte(remoteAddr, ":")
    IN  IF colon # -1 THEN Slice(remoteAddr, 0, colon) ELSE remoteAddr

getIP(remoteAddr) ==
    LET hp == SplitHostPort(remoteAddr)
    IN  IF hp.err # Nil THEN remoteAddr ELSE hp.host

\* ---------------------------------------------------------------- record
\* new(record): every field has its zero value
newRecord ==
    [startTime |-> ZeroTime, ip |-> <<>>, endTime |-> ZeroTime, method |-> "", uri |-> "",
     protocol |-> "", status |-> 0, responseBytes |-> 0, elapsedTime |-> ZeroTime]

\* r.startTime = time.Now()
start(rc, t) == [rc EXCEPT !.startTime = t]

\* r.endTime.Format("02/Jan/2006 15:04:05"): the instant truncated to whole seconds
TimeFormat(t) == t \div TicksPerSecond

\* %.4f of r.elapsedTime.Seconds(): the duration in units of 1/10000 s, rounded to nearest
Seconds4(d) == ((2 * 10000 * d) + TicksPerSecond) \div (2 * TicksPerSecond)

\* The fields of apacheFormatPattern, in order: "%s - - [%s] \"%s %s %s\" %d %d %.4f\n"
Format(rc) ==
    <<rc.ip, "- -", TimeFormat(rc.endTime), rc.method, rc.uri, rc.protocol,
      rc.status, rc.responseBytes, Seconds4(rc.elapsedTime), "\n">>

\* a log that hands every field to the sink in a Write call of its own
log_PerField(rc) == [i \in 1..Len(Format(rc)) |-> <<Format(rc)[i]>>]

\* fmt.Fprintf(r.out, ...): the Write calls issued on r.out, each carrying a run of fields.
\* Fprintf formats into a buffer and hands the whole buffer to one Write.
log(rc) == <<Format(rc)>>

\* a finish that subtracts the wrong way round
finish_SubReversed(rc, t) == [rc EXCEPT !.endTime = t, !.elapsedTime = rc.startTime - t]

\* r.endTime = time.Now(); r.elapsedTime = r.endTime.Sub(r.startTime); then r.log()
finish(rc, t) == [rc EXCEPT !.endTime = t, !.elapsedTime = t - rc.startTime]

\* a Write that counts the bytes it was asked to write
Write_CountRequested(rc, p, written, err) ==
    [rec |-> [rc EXCEPT !.responseBytes = @ + Len(p)], fwd |-> p, n |-> written, err |-> err]

\* a Write that also records the implicit 200 of a body written without WriteHeader
Write_SetsStatusOK(rc, p, written, err) ==
    [rec |-> [rc EXCEPT !.responseBytes = @ + written, !.status = StatusOK],
     fwd |-> p, n |-> written, err |-> err]

\* record.Write after the real channel reported (written, err)
Write(rc, p, written, err) ==
    [rec |-> [rc EXCEPT !.responseBytes = @ + written], fwd |-> p, n |-> written, err |-> err]

\* a WriteHeader that keeps the first status it was given
WriteHeader_FirstWins(rc, status) ==
    [rec |-> [rc EXCEPT !.status = IF @ = StatusOK THEN status ELSE @], fwd |-> status]

\* a WriteHeader that records the status without passing it on a second time
WriteHeader_ForwardOnce(rc, status) ==
    [rec |-> [rc EXCEPT !.status = status], fwd |-> IF rc.status = StatusOK THEN status ELSE rc.status]

\* record.WriteHeader
WriteHeader(rc, status) == [rec |-> [rc EXCEPT !.status = status], fwd |-> status]

\* a Hijack that reports the failure of the log line
HijackResult_LogErr(realErr, logErr) == IF logErr # Nil THEN logErr ELSE realErr

\* what record.Hijack returns once w.Hijack() returned realErr; logErr is what Fprintf returned
HijackResult(realErr, logErr) == realErr

\* ---------------------------------------------------------------- state
VARIABLES
    pc,        \* per request: where its goroutine stands in handler.ServeHTTP
    rec,       \* per request: the record
    hijacker,  \* per request: does the real ResponseWriter implement http.Hijacker
    trace,     \* per request: the calls the wrapped handler made on the record, with results
    real,      \* per request: the calls the real ResponseWriter received, with results
    wq,        \* per request: Write calls Fprintf still has to issue on the sink
    fpErr,     \* per request: the error Fprintf last returned (the code discards it)
    out,       \* the sink: the Write calls it received, in order
    now,       \* the clock
    budget,    \* the workload of this run
    request    \* per request: the *http.Request the server hands to ServeHTTP

vars == <<pc, rec, hijacker, trace, real, wq, fpErr, out, now, budget, request>>

Init ==
    /\ budget \in Workloads
    /\ pc = [r \in Reqs |-> "idle"]
    /\ rec = [r \in Reqs |-> newRecord]
    /\ hijacker \in [Reqs -> BOOLEAN]
    /\ \A r \in Reqs : r \notin DOMAIN budget => ~hijacker[r]
    /\ trace = [r \in Reqs |-> <<>>]
    /\ real = [r \in Reqs |-> <<>>]
    /\ wq = [r \in Reqs |-> <<>>]
    /\ fpErr = [r \in Reqs |-> Nil]
    /\ out = <<>>
    /\ now = 1
    /\ request = [r \in Reqs |-> Request(r)]

\* time.Now() on a clock that never goes backwards
Clock == {t \in now..(now + 1) : t <= MaxClock}

\* ---------------------------------------------------------------- handler.ServeHTTP
\* a ServeHTTP that sets up one record kept by the handler and shared by all requests
ServeHTTP_SharedRecord(r) ==
    /\ r \in DOMAIN budget
    /\ pc[r] = "idle"
    /\ \E t \in Clock :
        /\ now' = t
        /\ rec' = [q \in Reqs |->
                    [start(newRecord, t) EXCEPT
                        !.ip = getIP(request[r].RemoteAddr),
                        !.method = request[r].Method,
                        !.uri = request[r].RequestURI,
                        !.protocol = request[r].Proto,
                        !.status = StatusOK]]
    /\ pc' = [pc EXCEPT ![r] = "handler"]
    /\ UNCHANGED <<hijacker, trace, real, wq, fpErr, out, budget, request>>

\* lines 115-125: build the record and call the wrapped handler
ServeHTTP(r) ==
    /\ r \in DOMAIN budget
    /\ pc[r] = "idle"
    /\ \E t \in Clock :
        /\ now' = t
        /\ rec' = [rec EXCEPT ![r] =
                    [start(newRecord, t) EXCEPT
                        !.ip = getIP(request[r].RemoteAddr),
                        !.method = request[r].Method,
                        !.uri = request[r].RequestURI,
                        !.protocol = request[r].Proto,
                        !.status = StatusOK]]
    /\ pc' = [pc EXCEPT ![r] = "handler"]
    /\ UNCHANGED <<hijacker, trace, real, wq, fpErr, out, budget, request>>

\* the wrapped handler calls rec.Write(p)
HandlerWrite(r) ==
    /\ pc[r] = "handler"
    /\ Len(trace[r]) < budget[r]
    /\ \E p \in Payloads, written \in 0..MaxLen, err \in {Nil, ErrReal} :
        /\ written <= Len(p)
        /\ written < Len(p) => err = ErrReal
        /\ LET w == Write(rec[r], p, written, err)
           IN  /\ rec' = [rec EXCEPT ![r] = w.rec]
               /\ real' = [real EXCEPT ![r] =
                            Append(@, [op |-> "Write", arg |-> w.fwd, n |-> written, err |-> err])]
               /\ trace' = [trace EXCEPT ![r] =
                            Append(@, [op |-> "Write", arg |-> p, n |-> w.n, err |-> w.err])]
    /\ UNCHANGED <<pc, hijacker, wq, fpErr, out, now, budget, request>>

\* the wrapped handler calls rec.WriteHeader(status)
HandlerWriteHeader(r) ==
    /\ pc[r] = "handler"
    /\ Len(trace[r]) < budget[r]
    /\ \E status \in StatusCodes :
        LET w == WriteHeader(rec[r], status)
        IN  /\ rec' = [rec EXCEPT ![r] = w.rec]
            /\ real' = [real EXCEPT ![r] =
                         Append(@, [op |-> "WriteHeader", arg |-> w.fwd, n |-> 0, err |-> Nil])]
            /\ trace' = [trace EXCEPT ![r] =
                         Append(@, [op |-> "WriteHeader", arg |-> status, n |-> 0, err |-> Nil])]
    /\ UNCHANGED <<pc, hijacker, wq, fpErr, out, now, budget, request>>

\* a Hijack that finishes the record before it looks at the real channel
Hijack_FinishFirst(r) ==
    /\ pc[r] = "handler"
    /\ Len(trace[r]) < budget[r]
    /\ \E t \in Clock :
        /\ now' = t
        /\ rec' = [rec EXCEPT ![r] = finish(rec[r], t)]
        /\ wq' = [wq EXCEPT ![r] = log(finish(rec[r], t))]
    /\ pc' = [pc EXCEPT ![r] = "hijack_log"]
    /\ UNCHANGED <<hijacker, trace, real, fpErr, out, budget, request>>

\* the wrapped handler calls rec.Hijack(): lines 90-94
Hijack(r) ==
    /\ pc[r] = "handler"
    /\ Len(trace[r]) < budget[r]
    /\ IF ~hijacker[r]
       THEN /\ trace' = [trace EXCEPT ![r] =
                          Append(@, [op |-> "Hijack", arg |-> <<>>, n |-> 0,
                                     err |-> ErrHijackingNotSupported])]
            /\ UNCHANGED <<pc, rec, wq, now>>
       ELSE /\ \E t \in Clock :
                /\ now' = t
                /\ rec' = [rec EXCEPT ![r] = finish(rec[r], t)]
                /\ wq' = [wq EXCEPT ![r] = log(finish(rec[r], t))]
            /\ pc' = [pc EXCEPT ![r] = "hijack_log"]
            /\ UNCHANGED trace
    /\ UNCHANGED <<hijacker, real, fpErr, out, budget, request>>

\* one Write call of Fprintf reaches the sink; the sink accepts it or fails
FprintfWrite(r) ==
    /\ pc[r] \in {"hijack_log", "finish_log"}
    /\ wq[r] # <<>>
    /\ \E ok \in BOOLEAN :
        /\ out' = Append(out, [req |-> r, data |-> Head(wq[r]), ok |-> ok,
                             at |-> Len(trace[r]), atReal |-> Len(real[r])])
        /\ fpErr' = [fpErr EXCEPT ![r] = IF ok THEN Nil ELSE ErrSink]
        /\ wq' = [wq EXCEPT ![r] = IF ok THEN Tail(@) ELSE <<>>]
    /\ UNCHANGED <<pc, rec, hijacker, trace, real, now, budget, request>>

\* line 95: return w.Hijack()
HijackReturn(r) ==
    /\ pc[r] = "hijack_log"
    /\ wq[r] = <<>>
    /\ \E realErr \in {Nil, ErrReal} :
        /\ real' = [real EXCEPT ![r] =
                     Append(@, [op |-> "Hijack", arg |-> <<>>, n |-> 0, err |-> realErr])]
        /\ trace' = [trace EXCEPT ![r] =
                     Append(@, [op |-> "Hijack", arg |-> <<>>, n |-> 0,
                                err |-> HijackResult(realErr, fpErr[r])])]
    /\ pc' = [pc EXCEPT ![r] = "handler"]
    /\ UNCHANGED <<rec, hijacker, wq, fpErr, out, now, budget, request>>

\* a ServeHTTP that returns without finishing the record
HandlerReturn_NoFinish(r) ==
    /\ pc[r] = "handler"
    /\ pc' = [pc EXCEPT ![r] = "finish_log"]
    /\ UNCHANGED <<rec, hijacker, trace, real, wq, fpErr, out, now, budget, request>>

\* a ServeHTTP that finishes the record only when no Hijack finished it before
HandlerReturn_FinishOnce(r) ==
    /\ pc[r] = "handler"
    /\ IF rec[r].endTime # ZeroTime
       THEN UNCHANGED <<rec, wq, now>>
       ELSE \E t \in Clock :
                /\ now' = t
                /\ rec' = [rec EXCEPT ![r] = finish(rec[r], t)]
                /\ wq' = [wq EXCEPT ![r] = log(finish(rec[r], t))]
    /\ pc' = [pc EXCEPT ![r] = "finish_log"]
    /\ UNCHANGED <<hijacker, trace, real, fpErr, out, budget, request>>

\* line 125 returns, line 126: rec.finish()
HandlerReturn(r) ==
    /\ pc[r] = "handler"
    /\ \E t \in Clock :
        /\ now' = t
        /\ rec' = [rec EXCEPT ![r] = finish(rec[r], t)]
        /\ wq' = [wq EXCEPT ![r] = log(finish(rec[r], t))]
    /\ pc' = [pc EXCEPT ![r] = "finish_log"]
    /\ UNCHANGED <<hijacker, trace, real, fpErr, out, budget, request>>

\* line 127: ServeHTTP returns to the server
ServeHTTPReturn(r) ==
    /\ pc[r] = "finish_log"
    /\ wq[r] = <<>>
    /\ pc' = [pc EXCEPT ![r] = "done"]
    /\ UNCHANGED <<rec, hijacker, trace, real, wq, fpErr, out, now, budget, request>>

\* the wrapped handler panics; ServeHTTP has no deferred call, the panic unwinds through it
HandlerPanic(r) ==
    /\ pc[r] = "handler"
    /\ pc' = [pc EXCEPT ![r] = "panicked"]
    /\ UNCHANGED <<rec, hijacker, trace, real, wq, fpErr, out, now, budget, request>>

Next ==
    \E r \in Reqs :
        \/ ServeHTTP(r)
        \/ HandlerWrite(r)
        \/ HandlerWriteHeader(r)
        \/ Hijack(r)
        \/ FprintfWrite(r)
        \/ HijackReturn(r)
        \/ HandlerReturn(r)
        \/ ServeHTTPReturn(r)
        \/ HandlerPanic(r)

Spec == Init /\ [][Next]_vars

\* ---------------------------------------------------------------- peer addresses
\* One request whose handler makes no call on the proxy, with every peer address of up to
\* MaxAddrLen characters over a digit, the colon and the two brackets.
AddrChars == {"1", ":", "[", "]"}
Addrs == UNION {[1..n -> AddrChars] : n \in 0..MaxAddrLen}

InitIP ==
    /\ budget = [r \in {1} |-> 0]
    /\ pc = [r \in Reqs |-> "idle"]
    /\ rec = [r \in Reqs |-> newRecord]
    /\ hijacker = [r \in Reqs |-> FALSE]
    /\ trace = [r \in Reqs |-> <<>>]
    /\ real = [r \in Reqs |-> <<>>]
    /\ wq = [r \in Reqs |-> <<>>]
    /\ fpErr = [r \in Reqs |-> Nil]
    /\ out = <<>>
    /\ now = 1
    /\ \E a \in Addrs :
        request = [r \in Reqs |-> IF r = 1 THEN [Request(r) EXCEPT !.RemoteAddr = a] ELSE Request(r)]

NextIP ==
    \E r \in Reqs :
        \/ ServeHTTP(r)
        \/ FprintfWrite(r)
        \/ HandlerReturn(r)
        \/ ServeHTTPReturn(r)
        \/ HandlerPanic(r)

SpecIP == InitIP /\ [][NextIP]_vars

\* ---------------------------------------------------------------- observations
\* the Write calls the sink received for request r
LinesOf(r) == SelectSeq(out, LAMBDA e : e.req = r)
NumLines(r) == Len(LinesOf(r))

IsHijack(e) == e.op = "Hijack"
IsForwarded(e) == ~(e.op = "Hijack" /\ e.err = ErrHijackingNotSupported)
IsWriteOrStatus(e) == e.op \in {"Write", "WriteHeader"}

CalledHijack(r) == \E i \in DOMAIN trace[r] : IsHijack(trace[r][i])
HijackSucceeded(r) == \E i \in DOMAIN trace[r] : IsHijack(trace[r][i]) /\ trace[r][i].err = Nil
HijackFailed(r) == \E i \in DOMAIN trace[r] : IsHijack(trace[r][i]) /\ trace[r][i].err = ErrReal

RECURSIVE SumAccepted(_)
SumAccepted(calls) ==
    IF calls = <<>> THEN 0
    ELSE (IF Head(calls).op = "Write" THEN Head(calls).n ELSE 0) + SumAccepted(Tail(calls))

RECURSIVE LastStatus(_)
LastStatus(calls) ==
    IF calls = <<>> THEN StatusOK
    ELSE IF calls[Len(calls)].op = "WriteHeader" THEN calls[Len(calls)].arg
    ELSE LastStatus(SubSeq(calls, 1, Len(calls) - 1))

\* ---------------------------------------------------------------- C1
\* C1: when the wrapped handler never calls Hijack, the sink receives nothing for the request
\* until the handler has returned, and once ServeHTTP has returned it has received exactly
\* one Write, carrying the formatted record.
C1_OneLineAfterReturn ==
    \A r \in Reqs :
        ~CalledHijack(r) =>
            /\ pc[r] \in {"idle", "handler", "panicked"} => NumLines(r) = 0
            /\ pc[r] = "finish_log" => NumLines(r) <= 1
            /\ pc[r] = "done" => NumLines(r) = 1 /\ LinesOf(r)[1].data = Format(rec[r])

C1_Witness ==
    \E r \in Reqs :
        /\ pc[r] = "done"
        /\ ~CalledHijack(r)
        /\ \E i, j \in DOMAIN trace[r] : trace[r][i].op = "Write" /\ trace[r][j].op = "WriteHeader"
        /\ NumLines(r) = 1

\* ---------------------------------------------------------------- C2
\* C2: a request whose handler hijacked successfully and returned has exactly one log line.
C2_OneLineOnHijack ==
    \A r \in Reqs : (pc[r] = "done" /\ HijackSucceeded(r)) => NumLines(r) = 1

\* ---------------------------------------------------------------- C3
\* C3: a Hijack whose real hijack call failed leaves the record unfinished: while the handler
\* runs, nothing was written to the sink and endTime/elapsedTime are unset.
C3_FailedHijackNoLog ==
    \A r \in Reqs :
        (pc[r] = "handler" /\ HijackFailed(r) /\ ~HijackSucceeded(r)) =>
            /\ NumLines(r) = 0
            /\ rec[r].endTime = ZeroTime
            /\ rec[r].elapsedTime = ZeroTime

\* ---------------------------------------------------------------- C4
\* C4: a request whose handler panicked without a successful hijack has exactly one log
\* line, carrying the status and byte count recorded up to the panic.
C4_PanicStillLogs ==
    \A r \in Reqs :
        (pc[r] = "panicked" /\ ~HijackSucceeded(r)) =>
            /\ NumLines(r) = 1
            /\ LinesOf(r)[1].data[7] = rec[r].status
            /\ LinesOf(r)[1].data[8] = rec[r].responseBytes

\* ---------------------------------------------------------------- C5
\* C5: on a real channel that is no http.Hijacker, a Hijack call returns
\* ErrHijackingNotSupported and changes neither the record nor the sink nor the real channel;
\* the real channel never sees a Hijack, nothing is logged before the handler returns, and
\* the finished request has exactly one log line, whose byte count includes the later writes.
C5_UnsupportedHijackNoEffect ==
    [][\A r \in Reqs :
        ~hijacker[r] =>
            /\ (Len(trace'[r]) = Len(trace[r]) + 1 /\ IsHijack(trace'[r][Len(trace'[r])])) =>
                /\ trace'[r][Len(trace'[r])].err = ErrHijackingNotSupported
                /\ rec'[r] = rec[r]
                /\ out' = out
                /\ real' = real
                /\ wq' = wq
                /\ pc'[r] = "handler"
            /\ \A i \in DOMAIN real'[r] : ~IsHijack(real'[r][i])
            /\ pc'[r] \in {"idle", "handler", "panicked"} => NumLines(r)' = 0
            /\ pc'[r] = "done" =>
                /\ NumLines(r)' = 1
                /\ LinesOf(r)'[1].data[8] = SumAccepted(real'[r])
                /\ LinesOf(r)'[1].at = Len(trace'[r])]_vars

C5_Witness ==
    \E r \in Reqs :
        /\ ~hijacker[r]
        /\ pc[r] = "done"
        /\ NumLines(r) = 1
        /\ \E i, j \in DOMAIN trace[r] :
            /\ i < j
            /\ IsHijack(trace[r][i])
            /\ trace[r][i].err = ErrHijackingNotSupported
            /\ trace[r][j].op = "Write"
            /\ trace[r][j].n > 0

\* ---------------------------------------------------------------- C6
\* C6: responseBytes is the sum of the counts the real channel reported for the Write calls
\* so far, no step decreases it, and the byte field of every log line is that sum at the
\* moment the line was formatted.
C6_BytesAreAcceptedSum ==
    [][\A r \in Reqs :
        /\ rec'[r].responseBytes >= rec[r].responseBytes
        /\ rec'[r].responseBytes = SumAccepted(real'[r])
        /\ \A i \in DOMAIN out' :
            out'[i].req = r =>
                out'[i].data[8] = SumAccepted(SubSeq(real'[r], 1, out'[i].atReal))]_vars

C6_Witness ==
    \E r \in Reqs :
        /\ pc[r] = "done"
        /\ rec[r].responseBytes > 0
        /\ \E i, j \in DOMAIN real[r] :
            /\ i # j
            /\ real[r][i].op = "Write" /\ real[r][i].n = Len(real[r][i].arg) /\ real[r][i].n > 0
            /\ real[r][j].op = "Write" /\ real[r][j].n < Len(real[r][j].arg)

\* ---------------------------------------------------------------- C7
\* C7: the Write and WriteHeader calls the real channel received are the calls the handler
\* made on the proxy, with the same arguments, in the same order, and every call returned to
\* the handler the count and error the real channel returned.
C7_PassThrough ==
    \A r \in Reqs :
        SelectSeq(real[r], IsWriteOrStatus) = SelectSeq(trace[r], IsWriteOrStatus)

C7_Witness ==
    \E r \in Reqs :
        \E i, j, k \in DOMAIN trace[r] :
            /\ i < j /\ j < k
            /\ trace[r][i].op = "WriteHeader" /\ trace[r][i].arg # StatusOK
            /\ trace[r][j].op = "WriteHeader" /\ trace[r][j].arg # trace[r][i].arg
            /\ trace[r][k].op = "Write" /\ trace[r][k].err = ErrReal
            /\ trace[r][k].n < Len(trace[r][k].arg)

\* ---------------------------------------------------------------- C8
\* C8: the recorded status is 200 until the handler calls WriteHeader and the argument of
\* the latest WriteHeader call afterwards, whatever writes surround the calls; the status
\* field of every log line is that status at the moment the line was formatted.
C8_StatusLastWins ==
    \A r \in Reqs :
        /\ pc[r] # "idle" => rec[r].status = LastStatus(trace[r])
        /\ \A i \in DOMAIN out :
            out[i].req = r => out[i].data[7] = LastStatus(SubSeq(trace[r], 1, out[i].at))

C8_Witness ==
    \E r \in Reqs :
        /\ pc[r] = "done"
        /\ NumLines(r) = 1
        /\ \E i, j, k \in DOMAIN trace[r] :
            /\ i < j /\ j < k
            /\ trace[r][i].op = "WriteHeader" /\ trace[r][i].arg # StatusOK
            /\ trace[r][j].op = "Write"
            /\ trace[r][k].op = "WriteHeader" /\ trace[r][k].arg \notin {StatusOK, trace[r][i].arg}
            /\ LinesOf(r)[1].data[7] = trace[r][k].arg

C8_WitnessDefault ==
    \E r \in Reqs :
        /\ pc[r] = "done"
        /\ \E i \in DOMAIN trace[r] : trace[r][i].op = "Write"
        /\ \A i \in DOMAIN trace[r] : trace[r][i].op # "WriteHeader"
        /\ LinesOf(r)[1].data[7] = StatusOK

\* ---------------------------------------------------------------- C9
\* what the sink holds: the fields of the accepted Write calls, in the order of the calls,
\* each tagged with the request it belongs to and its position in that request's line
RECURSIVE SinkStream(_)
SinkStream(o) ==
    IF o = <<>> THEN <<>>
    ELSE (IF Head(o).ok
          THEN [i \in 1..Len(Head(o).data) |-> [req |-> Head(o).req, last |-> i = Len(Head(o).data)]]
          ELSE <<>>) \o SinkStream(Tail(o))

LineFields == Len(Format(newRecord))

\* C9: every Write call the sink receives carries one whole formatted line, so the sink's
\* content is a sequence of complete lines, each made of the fields of a single request,
\* whatever the interleaving of the requests.
C9_WholeLinePerWrite ==
    /\ \A i \in DOMAIN out : Len(out[i].data) = LineFields
    /\ LET S == SinkStream(out)
       IN  \A j \in DOMAIN S :
            LET first == j - ((j - 1) % LineFields)
            IN  /\ S[j].req = S[first].req
                /\ S[j].last <=> (j % LineFields = 0)

C9_Witness ==
    \E r1, r2 \in Reqs :
        /\ r1 # r2
        /\ pc[r1] = "finish_log" /\ wq[r1] = <<>>
        /\ pc[r2] = "finish_log" /\ wq[r2] = <<>>
        /\ Len(out) = 2
        /\ out[1].ok /\ out[2].ok
        /\ out[1].req = r1 /\ out[2].req = r2
        /\ rec[r2].startTime <= rec[r1].endTime

\* ---------------------------------------------------------------- C10
SinkFailed(r) == \E i \in DOMAIN out : out[i].req = r /\ ~out[i].ok

\* C10: when the sink failed on a request's log line, every call the handler made on the
\* proxy still returned what the real channel returned (Hijack included), and ServeHTTP
\* can return as soon as finish is over.
C10_SinkFailureIgnored ==
    \A r \in Reqs :
        SinkFailed(r) =>
            /\ SelectSeq(trace[r], IsForwarded) = real[r]
            /\ (pc[r] = "finish_log" /\ wq[r] = <<>>) => ENABLED ServeHTTPReturn(r)

C10_Witness ==
    \E r \in Reqs :
        /\ pc[r] = "done"
        /\ NumLines(r) = 2
        /\ ~LinesOf(r)[1].ok /\ ~LinesOf(r)[2].ok
        /\ \E i, j \in DOMAIN trace[r] :
            /\ i < j
            /\ IsHijack(trace[r][i]) /\ trace[r][i].err = ErrReal
            /\ trace[r][j].op = "Write" /\ trace[r][j].err = ErrReal

\* ---------------------------------------------------------------- C11
\* C11: requests served concurrently share no record: a step of one request's goroutine
\* leaves every other request's record and real channel alone, and every log line carries
\* the client address, method, URI and protocol of its own request and the status and byte
\* count its own handler produced.
C11_NoSharedRecord ==
    [][\A r \in Reqs :
        /\ (pc'[r] = pc[r] /\ trace'[r] = trace[r] /\ wq'[r] = wq[r]) =>
            (rec'[r] = rec[r] /\ real'[r] = real[r])
        /\ \A i \in DOMAIN out' :
            out'[i].req = r =>
                /\ out'[i].data[1] = getIP(request[r].RemoteAddr)
                /\ out'[i].data[4] = request[r].Method
                /\ out'[i].data[5] = request[r].RequestURI
                /\ out'[i].data[6] = request[r].Proto
                /\ out'[i].data[7] = LastStatus(SubSeq(trace'[r], 1, out'[i].at))
                /\ out'[i].data[8] = SumAccepted(SubSeq(real'[r], 1, out'[i].atReal))]_vars

C11_Witness ==
    \E r1, r2 \in Reqs :
        /\ r1 # r2
        /\ pc[r1] = "finish_log" /\ wq[r1] = <<>>
        /\ pc[r2] = "finish_log" /\ wq[r2] = <<>>
        /\ Len(out) = 2 /\ out[1].req = r1 /\ out[2].req = r2
        /\ trace[r1] # <<>> /\ trace[r1][1].op = "WriteHeader" /\ trace[r1][1].arg # StatusOK
        /\ trace[r2] # <<>> /\ trace[r2][1].op = "Write" /\ trace[r2][1].n > 0
        /\ out[1].data[7] # out[2].data[7]
        /\ out[1].data[8] # out[2].data[8]
        /\ out[1].data[5] # out[2].data[5]

\* ---------------------------------------------------------------- C12
\* C12: on a clock that never goes backwards, startTime is read when ServeHTTP builds the
\* record, before the wrapped handler runs; every finish reads the clock into endTime, so
\* endTime >= startTime and elapsedTime = endTime - startTime >= 0; every line written to
\* the sink prints the endTime of that finish and a non-negative elapsed time.
C12_EndNotBeforeStart ==
    [][\A r \in Reqs :
        /\ (pc[r] = "idle" /\ pc'[r] # "idle") =>
            (rec'[r].startTime = now' /\ rec'[r].startTime >= now /\ trace'[r] = <<>>)
        /\ (wq[r] = <<>> /\ wq'[r] # <<>>) => rec'[r].endTime = now'
        /\ rec'[r].endTime # ZeroTime =>
            /\ rec'[r].endTime >= rec'[r].startTime
            /\ rec'[r].elapsedTime = rec'[r].endTime - rec'[r].startTime
            /\ rec'[r].elapsedTime >= 0
        /\ (Len(out') = Len(out) + 1 /\ out'[Len(out')].req = r) =>
            /\ out'[Len(out')].data[3] = TimeFormat(rec[r].endTime)
            /\ out'[Len(out')].data[9] = Seconds4(rec[r].endTime - rec[r].startTime)
            /\ out'[Len(out')].data[9] >= 0]_vars

C12_Witness ==
    \E r \in Reqs :
        /\ pc[r] = "done"
        /\ NumLines(r) = 1
        /\ rec[r].endTime > rec[r].startTime
        /\ LinesOf(r)[1].data[3] = TimeFormat(rec[r].endTime)
        /\ LinesOf(r)[1].data[9] > 0

\* ---------------------------------------------------------------- C13
Plain(s) == \A i \in DOMAIN s : s[i] \notin {":", "[", "]"}
NoBracket(s) == \A i \in DOMAIN s : s[i] \notin {"[", "]"}

\* a is host ":" port with the colon at position i
IsHostPort(a, i) ==
    /\ a[i] = ":"
    /\ Plain(SubSeq(a, 1, i - 1))
    /\ Plain(SubSeq(a, i + 1, Len(a)))

\* a is "[" host "]" ":" port with the colon at position i
IsBracketHostPort(a, i) ==
    /\ i >= 3
    /\ a[1] = "[" /\ a[i - 1] = "]" /\ a[i] = ":"
    /\ NoBracket(SubSeq(a, 2, i - 2))
    /\ Plain(SubSeq(a, i + 1, Len(a)))

\* C13: ServeHTTP accepts every peer address; for host:port the recorded client address is
\* the host, for [host]:port it is the host inside the brackets, and for every other string
\* (no colon at all, or no port that parses) it is the raw string; the log line prints it.
C13_ClientAddress ==
    \A r \in DOMAIN budget :
        LET a == request[r].RemoteAddr
        IN  /\ pc[r] = "idle" => ENABLED ServeHTTP(r)
            /\ pc[r] # "idle" =>
                /\ \A i \in DOMAIN a : IsHostPort(a, i) => rec[r].ip = SubSeq(a, 1, i - 1)
                /\ \A i \in DOMAIN a : IsBracketHostPort(a, i) => rec[r].ip = SubSeq(a, 2, i - 2)
                /\ (\A i \in DOMAIN a : a[i] # ":") => rec[r].ip = a
                /\ (\A i \in DOMAIN a : ~IsHostPort(a, i) /\ ~IsBracketHostPort(a, i)) => rec[r].ip = a
            /\ \A i \in DOMAIN out : out[i].req = r => out[i].data[1] = rec[r].ip

C13_Witness ==
    \E r \in DOMAIN budget :
        LET a == request[r].RemoteAddr
        IN  /\ pc[r] = "done"
            /\ Len(a) = 5
            /\ IsBracketHostPort(a, 4)
            /\ a[2] = ":" /\ a[5] = "1"
            /\ rec[r].ip = <<":">>
            /\ NumLines(r) = 1
            /\ LinesOf(r)[1].data[1] = <<":">>

C13_WitnessRaw ==
    \E r \in DOMAIN budget :
        LET a == request[r].RemoteAddr
        IN  /\ pc[r] = "done"
            /\ a = <<"1", ":", "1", ":", "1">>
            /\ rec[r].ip = a

\* ---------------------------------------------------------------- C14
\* the Hijack calls that reached the real channel
NumRealHijacks(r) == Len(SelectSeq(real[r], IsHijack))

Completed(r, op) ==
    /\ Len(trace'[r]) = Len(trace[r]) + 1
    /\ trace'[r][Len(trace'[r])].op = op

\* C15: once ServeHTTP has built the record, no step changes its ip, method, uri, protocol
\* or startTime; a Write changes nothing of the record but responseBytes, a WriteHeader
\* nothing but status, and neither of them makes the sink receive anything.
C15_Frame ==
    [][\A r \in Reqs :
        /\ pc[r] # "idle" =>
            /\ rec'[r].ip = rec[r].ip
            /\ rec'[r].method = rec[r].method
            /\ rec'[r].uri = rec[r].uri
            /\ rec'[r].protocol = rec[r].protocol
            /\ rec'[r].startTime = rec[r].startTime
        /\ Completed(r, "Write") =>
            /\ rec'[r] = [rec[r] EXCEPT !.responseBytes = rec'[r].responseBytes]
            /\ out' = out /\ wq' = wq
        /\ Completed(r, "WriteHeader") =>
            /\ rec'[r] = [rec[r] EXCEPT !.status = rec'[r].status]
            /\ out' = out /\ wq' = wq]_vars

C15_Witness ==
    \E r \in Reqs :
        /\ pc[r] = "done"
        /\ NumLines(r) = 2
        /\ \E i, j, k \in DOMAIN trace[r] :
            /\ trace[r][i].op = "WriteHeader" /\ trace[r][i].arg # StatusOK
            /\ i < j
            /\ trace[r][j].op = "Write" /\ trace[r][j].n > 0
            /\ IsHijack(trace[r][k]) /\ trace[r][k].err = Nil
        /\ rec[r].ip = getIP(request[r].RemoteAddr)
        /\ rec[r].method = request[r].Method
        /\ rec[r].uri = request[r].RequestURI
        /\ rec[r].protocol = request[r].Proto
        /\ rec[r].startTime # ZeroTime
        /\ rec[r].status # StatusOK

====
